---- MODULE Spec2Model ----
(***************************************************************************)
(* Ultimate Tic-Tac-Toe: the game reducer of GameContext.tsx (move         *)
(* validation, sub-board and meta-board win detection, redirect, undo and  *)
(* redo, turn timer, multiplayer opponent moves) and the bot move          *)
(* selector getBotMove in its two versions (GameContext.tsx and the        *)
(* enhanced selector with the 'impossible' difficulty).                    *)
(***************************************************************************)
EXTENDS Integers, Sequences, FiniteSets, TLC

VARIABLES
  state,    \* the GameState record held by useReducer(gameReducer, initialState)
  last,     \* the action dispatched last and the GameState it was applied to
  script,   \* the recorded game the host replays first (index into Scripts)
  pos,      \* number of actions of the recorded game dispatched so far
  steps,    \* number of actions dispatched after the recorded game
  botIn,    \* arguments of a getBotMove call under examination
  botOut,   \* the moves that call can return, over all random choices
  effects,  \* the timers armed by the provider's effects (see noEffects)
  peers     \* the other browser of a multiplayer session (see noPeers)

vars == <<state, last, script, pos, steps, botIn, botOut, effects, peers>>

(***************************************************************************)
(* Values.  JavaScript null of type Player is the string "null"; a null    *)
(* nextBoardIndex is NoBoard; the -1 the selector uses for "no cell found" *)
(* is NotFound; JavaScript undefined used as an index is UndefinedIdx.     *)
(***************************************************************************)
null == "null"
NoBoard == -1
NotFound == -1
UndefinedIdx == -2
Idx == 0..8
Players == {"X", "O"}

Other(p) == IF p = "X" THEN "O" ELSE "X"

initialBoard == [i \in Idx |-> null]
initialBoards == [b \in Idx |-> initialBoard]
initialBoardStatus == [b \in Idx |-> null]

initialState ==
  [ boards            |-> initialBoards,
    boardStatus       |-> initialBoardStatus,
    currentPlayer     |-> "X",
    nextBoardIndex    |-> NoBoard,
    gameStatus        |-> "init",
    winner            |-> null,
    turnTimeLimit     |-> 30,
    turnTimeRemaining |-> 30,
    moveHistory       |-> << >>,
    currentMoveIndex  |-> -1,
    showConfetti      |-> FALSE,
    timerEnabled      |-> TRUE,
    playerSymbols     |-> "XO",
    botMode           |-> FALSE,
    difficulty        |-> "medium",
    multiplayerMode   |-> FALSE,
    gameCode          |-> "",
    isHost            |-> FALSE,
    isMyTurn          |-> TRUE ]

(***************************************************************************)
(* checkWinner: the first of the 8 lines, in source order, whose three     *)
(* entries are the same non-null value; null when there is none (a full    *)
(* board without a line also yields null).                                 *)
(***************************************************************************)
lines ==
  << <<0, 1, 2>>, <<3, 4, 5>>, <<6, 7, 8>>,
     <<0, 3, 6>>, <<1, 4, 7>>, <<2, 5, 8>>,
     <<0, 4, 8>>, <<2, 4, 6>> >>

\* a line test that looks at the first two cells of the line only
LineCompletePair(board, l) ==
  /\ board[l[1]] # null
  /\ board[l[1]] = board[l[2]]

LineComplete(board, l) ==
  /\ board[l[1]] # null
  /\ board[l[1]] = board[l[2]]
  /\ board[l[1]] = board[l[3]]

checkWinner(board) ==
  LET hit == {i \in 1..8 : LineComplete(board, lines[i])}
  IN  IF hit = {} THEN null
      ELSE LET first == CHOOSE i \in hit : \A j \in hit : i <= j
           IN  board[lines[first][1]]

includesNull(board) == \E i \in Idx : board[i] = null

(***************************************************************************)
(* gameReducer, case MAKE_MOVE.                                            *)
(***************************************************************************)
\* a move guard that ignores the constrained board
MoveInvalidUnconstrained(s, boardIndex, cellIndex) ==
  \/ s.gameStatus # "playing"
  \/ s.boardStatus[boardIndex] # null
  \/ s.boards[boardIndex][cellIndex] # null
  \/ (s.multiplayerMode /\ ~s.isMyTurn)

MoveInvalid(s, boardIndex, cellIndex) ==
  \/ s.gameStatus # "playing"
  \/ (s.nextBoardIndex # NoBoard /\ s.nextBoardIndex # boardIndex)
  \/ s.boardStatus[boardIndex] # null
  \/ s.boards[boardIndex][cellIndex] # null
  \/ (s.multiplayerMode /\ ~s.isMyTurn)

\* a move application that appends to the history without discarding the
\* entries beyond the cursor
ApplyMoveKeepsFuture(s, boardIndex, cellIndex, myTurn) ==
  LET newBoards == [s.boards EXCEPT ![boardIndex][cellIndex] = s.currentPlayer]
      boardWinner == checkWinner(newBoards[boardIndex])
      newBoardStatus ==
        IF boardWinner # null
          THEN [s.boardStatus EXCEPT ![boardIndex] = boardWinner]
          ELSE s.boardStatus
      nextBoard == IF newBoardStatus[cellIndex] # null THEN NoBoard ELSE cellIndex
      gameWinner == checkWinner(newBoardStatus)
      gameOver == gameWinner # null \/ ~includesNull(newBoardStatus)
      newHistory ==
        Append(s.moveHistory,
               [ boards |-> s.boards, boardStatus |-> s.boardStatus,
                 boardIndex |-> boardIndex, cellIndex |-> cellIndex ])
  IN  [ s EXCEPT
          !.boards = newBoards,
          !.boardStatus = newBoardStatus,
          !.currentPlayer = Other(s.currentPlayer),
          !.nextBoardIndex = nextBoard,
          !.gameStatus = IF gameOver THEN "game-over" ELSE s.gameStatus,
          !.winner = gameWinner,
          !.turnTimeRemaining = s.turnTimeLimit,
          !.moveHistory = newHistory,
          !.currentMoveIndex = s.currentMoveIndex + 1,
          !.showConfetti = (gameWinner # null),
          !.isMyTurn = myTurn ]

\* a move application that also writes the mover's symbol into the mirrored
\* cell (cellIndex, boardIndex)
ApplyMoveMirrored(s, boardIndex, cellIndex, myTurn) ==
  LET newBoards == [s.boards EXCEPT ![boardIndex][cellIndex] = s.currentPlayer,
                                    ![cellIndex][boardIndex] = s.currentPlayer]
      boardWinner == checkWinner(newBoards[boardIndex])
      newBoardStatus ==
        IF boardWinner # null
          THEN [s.boardStatus EXCEPT ![boardIndex] = boardWinner]
          ELSE s.boardStatus
      nextBoard == IF newBoardStatus[cellIndex] # null THEN NoBoard ELSE cellIndex
      gameWinner == checkWinner(newBoardStatus)
      gameOver == gameWinner # null \/ ~includesNull(newBoardStatus)
      newHistory ==
        Append(SubSeq(s.moveHistory, 1, s.currentMoveIndex + 1),
               [ boards |-> s.boards, boardStatus |-> s.boardStatus,
                 boardIndex |-> boardIndex, cellIndex |-> cellIndex ])
  IN  [ s EXCEPT
          !.boards = newBoards,
          !.boardStatus = newBoardStatus,
          !.currentPlayer = Other(s.currentPlayer),
          !.nextBoardIndex = nextBoard,
          !.gameStatus = IF gameOver THEN "game-over" ELSE s.gameStatus,
          !.winner = gameWinner,
          !.turnTimeRemaining = s.turnTimeLimit,
          !.moveHistory = newHistory,
          !.currentMoveIndex = s.currentMoveIndex + 1,
          !.showConfetti = (gameWinner # null),
          !.isMyTurn = myTurn ]

\* the part of MAKE_MOVE and OPPONENT_MOVE that writes the cell and derives
\* status, redirect, game end and history; myTurn is the isMyTurn to store
ApplyMove(s, boardIndex, cellIndex, myTurn) ==
  LET newBoards == [s.boards EXCEPT ![boardIndex][cellIndex] = s.currentPlayer]
      boardWinner == checkWinner(newBoards[boardIndex])
      newBoardStatus ==
        IF boardWinner # null
          THEN [s.boardStatus EXCEPT ![boardIndex] = boardWinner]
          ELSE IF ~includesNull(newBoards[boardIndex])
                 THEN [s.boardStatus EXCEPT ![boardIndex] = null]
                 ELSE s.boardStatus
      nextBoard == IF newBoardStatus[cellIndex] # null THEN NoBoard ELSE cellIndex
      gameWinner == checkWinner(newBoardStatus)
      gameOver == gameWinner # null \/ ~includesNull(newBoardStatus)
      newHistory ==
        Append(SubSeq(s.moveHistory, 1, s.currentMoveIndex + 1),
               [ boards |-> s.boards, boardStatus |-> s.boardStatus,
                 boardIndex |-> boardIndex, cellIndex |-> cellIndex ])
  IN  [ s EXCEPT
          !.boards = newBoards,
          !.boardStatus = newBoardStatus,
          !.currentPlayer = Other(s.currentPlayer),
          !.nextBoardIndex = nextBoard,
          !.gameStatus = IF gameOver THEN "game-over" ELSE s.gameStatus,
          !.winner = gameWinner,
          !.turnTimeRemaining = s.turnTimeLimit,
          !.moveHistory = newHistory,
          !.currentMoveIndex = s.currentMoveIndex + 1,
          !.showConfetti = (gameWinner # null),
          !.isMyTurn = myTurn ]

ReduceMakeMove(s, boardIndex, cellIndex) ==
  IF MoveInvalid(s, boardIndex, cellIndex)
    THEN s
    ELSE ApplyMove(s, boardIndex, cellIndex, IF s.multiplayerMode THEN FALSE ELSE TRUE)

(***************************************************************************)
(* gameReducer, the other cases.                                           *)
(***************************************************************************)
ReduceStartGame(s) == [s EXCEPT !.gameStatus = "playing"]

ReduceStopGame(s) == [s EXCEPT !.gameStatus = "init"]

ReduceToggleBotMode(s) == [s EXCEPT !.botMode = ~s.botMode]

\* moveHistory is a JavaScript array indexed from 0
HistoryAt(s, i) == s.moveHistory[i + 1]

\* an undo that is not disabled for multiplayer sessions
ReduceUndoInMultiplayer(s) ==
  IF s.currentMoveIndex <= 0
    THEN s
    ELSE LET prevMoveIndex == s.currentMoveIndex - 1
             prevMove == HistoryAt(s, prevMoveIndex)
         IN  [ s EXCEPT
                 !.boards = prevMove.boards,
                 !.boardStatus = prevMove.boardStatus,
                 !.currentPlayer = Other(s.currentPlayer),
                 !.nextBoardIndex = prevMove.cellIndex,
                 !.currentMoveIndex = prevMoveIndex,
                 !.gameStatus = "playing",
                 !.winner = null,
                 !.turnTimeRemaining = s.turnTimeLimit,
                 !.showConfetti = FALSE ]

ReduceUndo(s) ==
  IF s.currentMoveIndex <= 0 \/ s.multiplayerMode
    THEN s
    ELSE LET prevMoveIndex == s.currentMoveIndex - 1
             prevMove == HistoryAt(s, prevMoveIndex)
         IN  [ s EXCEPT
                 !.boards = prevMove.boards,
                 !.boardStatus = prevMove.boardStatus,
                 !.currentPlayer = Other(s.currentPlayer),
                 !.nextBoardIndex = prevMove.cellIndex,
                 !.currentMoveIndex = prevMoveIndex,
                 !.gameStatus = "playing",
                 !.winner = null,
                 !.turnTimeRemaining = s.turnTimeLimit,
                 !.showConfetti = FALSE ]

ReduceRedo(s) ==
  IF s.currentMoveIndex >= Len(s.moveHistory) - 1 \/ s.multiplayerMode
    THEN s
    ELSE LET nextMoveIndex == s.currentMoveIndex + 1
             historicalMove == HistoryAt(s, nextMoveIndex)
             nextBoardIndex ==
               IF nextMoveIndex + 1 <= Len(s.moveHistory) - 1
                 THEN HistoryAt(s, nextMoveIndex + 1).cellIndex
                 ELSE NoBoard
             boardWinner == checkWinner(s.boardStatus)
             gameOver == boardWinner # null \/ ~includesNull(s.boardStatus)
         IN  [ s EXCEPT
                 !.boards = historicalMove.boards,
                 !.boardStatus = historicalMove.boardStatus,
                 !.currentPlayer = Other(s.currentPlayer),
                 !.nextBoardIndex = nextBoardIndex,
                 !.currentMoveIndex = nextMoveIndex,
                 !.gameStatus = IF gameOver THEN "game-over" ELSE "playing",
                 !.winner = boardWinner,
                 !.turnTimeRemaining = s.turnTimeLimit,
                 !.showConfetti = (boardWinner # null) ]

\* a restart that goes back to the defaults, settings included
ReduceRestartDefaults(s) == initialState

\* a restart that empties the history but keeps the cursor
ReduceRestartKeepsCursor(s) ==
  [ initialState EXCEPT
      !.turnTimeLimit = s.turnTimeLimit,
      !.timerEnabled = s.timerEnabled,
      !.playerSymbols = s.playerSymbols,
      !.botMode = s.botMode,
      !.difficulty = s.difficulty,
      !.multiplayerMode = s.multiplayerMode,
      !.gameCode = s.gameCode,
      !.isHost = s.isHost,
      !.isMyTurn = IF s.multiplayerMode THEN s.isHost ELSE TRUE,
      !.turnTimeRemaining = s.turnTimeLimit,
      !.currentMoveIndex = s.currentMoveIndex ]

\* a restart that clears the boards but leaves the phase as it was
ReduceRestartStaysInPlay(s) ==
  [ initialState EXCEPT
      !.turnTimeLimit = s.turnTimeLimit,
      !.timerEnabled = s.timerEnabled,
      !.playerSymbols = s.playerSymbols,
      !.botMode = s.botMode,
      !.difficulty = s.difficulty,
      !.multiplayerMode = s.multiplayerMode,
      !.gameCode = s.gameCode,
      !.isHost = s.isHost,
      !.isMyTurn = IF s.multiplayerMode THEN s.isHost ELSE TRUE,
      !.turnTimeRemaining = s.turnTimeLimit,
      !.gameStatus = s.gameStatus ]

ReduceRestart(s) ==
  [ initialState EXCEPT
      !.turnTimeLimit = s.turnTimeLimit,
      !.timerEnabled = s.timerEnabled,
      !.playerSymbols = s.playerSymbols,
      !.botMode = s.botMode,
      !.difficulty = s.difficulty,
      !.multiplayerMode = s.multiplayerMode,
      !.gameCode = s.gameCode,
      !.isHost = s.isHost,
      !.isMyTurn = IF s.multiplayerMode THEN s.isHost ELSE TRUE,
      !.turnTimeRemaining = s.turnTimeLimit ]

ReducePause(s) ==
  IF s.gameStatus = "playing" THEN [s EXCEPT !.gameStatus = "paused"] ELSE s

ReduceResume(s) ==
  IF s.gameStatus = "paused" THEN [s EXCEPT !.gameStatus = "playing"] ELSE s

\* a tick that counts down whatever the phase
ReduceTickTimerAnyPhase(s) ==
  IF ~s.timerEnabled \/ s.turnTimeRemaining <= 0
    THEN s
    ELSE [s EXCEPT !.turnTimeRemaining = s.turnTimeRemaining - 1]

\* a tick that takes two seconds off the clock
ReduceTickTimerByTwo(s) ==
  IF s.gameStatus # "playing" \/ ~s.timerEnabled \/ s.turnTimeRemaining <= 0
    THEN s
    ELSE [s EXCEPT !.turnTimeRemaining = s.turnTimeRemaining - 2]

ReduceTickTimer(s) ==
  IF s.gameStatus # "playing" \/ ~s.timerEnabled \/ s.turnTimeRemaining <= 0
    THEN s
    ELSE [s EXCEPT !.turnTimeRemaining = s.turnTimeRemaining - 1]

\* a time-up that ends the game in favour of the player who was waiting
ReduceTimeUpForfeits(s) ==
  IF s.gameStatus # "playing" \/ ~s.timerEnabled
    THEN s
    ELSE [ s EXCEPT
             !.gameStatus = "game-over",
             !.winner = Other(s.currentPlayer),
             !.currentPlayer = Other(s.currentPlayer),
             !.turnTimeRemaining = s.turnTimeLimit ]

ReduceTimeUp(s) ==
  IF s.gameStatus # "playing" \/ ~s.timerEnabled
    THEN s
    ELSE [ s EXCEPT
             !.currentPlayer = Other(s.currentPlayer),
             !.turnTimeRemaining = s.turnTimeLimit ]

ReduceHideConfetti(s) == [s EXCEPT !.showConfetti = FALSE]

ReduceOpponentMove(s, boardIndex, cellIndex) ==
  IF s.gameStatus # "playing" \/ ~s.multiplayerMode
    THEN s
    ELSE ApplyMove(s, boardIndex, cellIndex, TRUE)

ReduceCreateMultiplayerGame(s, gameCode, isHost) ==
  [ s EXCEPT
      !.multiplayerMode = TRUE,
      !.botMode = FALSE,
      !.gameCode = gameCode,
      !.isHost = isHost,
      !.gameStatus = "playing",
      !.isMyTurn = isHost ]

ReduceJoinMultiplayerGame(s, gameCode, isHost) ==
  [ s EXCEPT
      !.multiplayerMode = TRUE,
      !.botMode = FALSE,
      !.gameCode = gameCode,
      !.isHost = isHost,
      !.gameStatus = "playing",
      !.isMyTurn = ~isHost ]

ReduceSetMyTurn(s, isMyTurn) == [s EXCEPT !.isMyTurn = isMyTurn]

\* settings: turnTimeLimit, timerEnabled, playerSymbols, botMode, difficulty and
\* the optional multiplayerMode (FALSE when absent: it is or-ed with the state's)
ReduceUpdateSettings(s, settings) ==
  [ s EXCEPT
      !.turnTimeLimit = settings.turnTimeLimit,
      !.turnTimeRemaining = settings.turnTimeLimit,
      !.timerEnabled = settings.timerEnabled,
      !.playerSymbols = settings.playerSymbols,
      !.botMode = settings.botMode,
      !.difficulty = settings.difficulty,
      !.multiplayerMode = (settings.multiplayerMode \/ s.multiplayerMode) ]

ReduceSyncStartGame(s) == [s EXCEPT !.gameStatus = "init"]

(***************************************************************************)
(* The bot move selector.  Math.random picks are nondeterministic, so      *)
(* getBotMove is the set of moves one call can return.  Picking from an    *)
(* empty array gives undefined (UndefinedIdx).                             *)
(***************************************************************************)
Move(b, c) == [boardIndex |-> b, cellIndex |-> c]

Min(S) == CHOOSE x \in S : \A y \in S : x <= y

\* array[Math.floor(Math.random() * array.length)]
randomPick(S) == IF S = {} THEN {UndefinedIdx} ELSE S

emptyCells(board) == {i \in Idx : board[i] = null}

countOf(board, v) == Cardinality({i \in Idx : board[i] = v})

validBoardIndices(boardStatus, nextBoardIndex) ==
  IF nextBoardIndex # NoBoard /\ boardStatus[nextBoardIndex] = null
    THEN {nextBoardIndex}
    ELSE {i \in Idx : boardStatus[i] = null}

\* the cell findWinningMove returns for one line, NotFound if none
lineWinningCell(board, player, l) ==
  LET a == l[1]  b == l[2]  c == l[3]
  IN  IF board[a] = player /\ board[b] = player /\ board[c] = null THEN c
      ELSE IF board[a] = player /\ board[c] = player /\ board[b] = null THEN b
      ELSE IF board[b] = player /\ board[c] = player /\ board[a] = null THEN a
      ELSE NotFound

findWinningMove(board, player) ==
  LET hit == {i \in 1..8 : lineWinningCell(board, player, lines[i]) # NotFound}
  IN  IF hit = {} THEN NotFound
      ELSE lineWinningCell(board, player, lines[Min(hit)])

\* number of lines with exactly two of player and one empty cell
openTwos(board, player) ==
  Cardinality({i \in 1..8 :
    LET l == lines[i]
    IN  /\ Cardinality({k \in 1..3 : board[l[k]] = player}) = 2
        /\ Cardinality({k \in 1..3 : board[l[k]] = null}) = 1})

findForkMove(board, player) ==
  LET forks == {i \in emptyCells(board) :
                  openTwos([board EXCEPT ![i] = player], player) >= 2}
  IN  IF forks = {} THEN NotFound ELSE Min(forks)

\* the first board, in array order, that reaches the greatest score
bestOf(valid, score) ==
  Min({b \in valid : \A o \in valid : score[o] <= score[b]})

findBestBoard(valid, boards, boardStatus) ==
  LET score(b) == countOf(boards[b], null) + countOf(boards[b], "O") * 2
                    - countOf(boards[b], "X")
  IN  bestOf(valid, [b \in valid |-> score(b)])

\* boards[boardIndex] of an undefined boardIndex is undefined: forEach on it
\* throws a TypeError, which the selector's caller sees as no move at all
Thrown == Move(UndefinedIdx, UndefinedIdx)

randomCellOn(boards, boardIndex) ==
  IF boardIndex = UndefinedIdx THEN {Thrown}
  ELSE {Move(boardIndex, c) : c \in randomPick(emptyCells(boards[boardIndex]))}

\* first valid board, in array order, where findWinningMove finds a cell
firstWinningBoard(valid, boards, player) ==
  LET hit == {b \in valid : findWinningMove(boards[b], player) # NotFound}
  IN  IF hit = {} THEN NotFound ELSE Min(hit)

\* Hard mode of GameContext.tsx once no win and no block was found
hardChoice(boards, boardStatus, valid, picked) ==
  IF picked = UndefinedIdx THEN {Thrown}
  ELSE
  LET boardIndex == IF Cardinality(valid) > 1
                      THEN findBestBoard(valid, boards, boardStatus)
                      ELSE picked
      empty == emptyCells(boards[boardIndex])
      byPosition ==
        IF 4 \in empty THEN {4}
        ELSE IF empty \cap {0, 2, 6, 8} # {} THEN empty \cap {0, 2, 6, 8}
        ELSE randomPick(empty \cap {1, 3, 5, 7})
      decided == {c \in empty : boardStatus[c] # null}
  IN  IF Cardinality(empty) > 1 /\ decided # {}
        THEN {Move(boardIndex, Min(decided))}
        ELSE {Move(boardIndex, c) : c \in byPosition}

getBotMove(boards, boardStatus, nextBoardIndex, difficulty) ==
  LET valid == validBoardIndices(boardStatus, nextBoardIndex)
      winB == firstWinningBoard(valid, boards, "O")
      blockB == firstWinningBoard(valid, boards, "X")
      strategic == difficulty \in {"medium", "hard"}
  IN  UNION { 
        IF difficulty = "easy" THEN randomCellOn(boards, picked)
        ELSE IF strategic /\ winB # NotFound
          THEN {Move(winB, findWinningMove(boards[winB], "O"))}
        ELSE IF strategic /\ blockB # NotFound
          THEN {Move(blockB, findWinningMove(boards[blockB], "X"))}
        ELSE IF difficulty = "hard"
          THEN hardChoice(boards, boardStatus, valid, picked)
        ELSE randomCellOn(boards, picked)
        : picked \in randomPick(valid) }

(***************************************************************************)
(* The enhanced selector (the version with the 'impossible' difficulty):   *)
(* win and block at every difficulty but easy, then forks, the best board  *)
(* and center / corners / sides for hard and impossible, then the          *)
(* strategic scan of impossible.                                           *)
(***************************************************************************)
findBestBoardEnhanced(valid, boards, boardStatus) ==
  LET score(b) ==
        countOf(boards[b], null) + countOf(boards[b], "O") * 3
          - countOf(boards[b], "X") * 2
          + (IF findWinningMove(boards[b], "O") # NotFound THEN 10 ELSE 0)
          + (IF findWinningMove(boards[b], "X") # NotFound THEN 8 ELSE 0)
          + (IF findForkMove(boards[b], "O") # NotFound THEN 9 ELSE 0)
          + 5 * Cardinality({c \in emptyCells(boards[b]) : boardStatus[c] # null})
  IN  bestOf(valid, [b \in valid |-> score(b)])

firstForkBoard(valid, boards, player) ==
  LET hit == {b \in valid : findForkMove(boards[b], player) # NotFound}
  IN  IF hit = {} THEN NotFound ELSE Min(hit)

\* the strategic scan of impossible mode over the empty cells of boardIndex
impossibleChoice(boards, boardStatus, boardIndex) ==
  LET empty == emptyCells(boards[boardIndex])
      strategicCells ==
        {c \in empty : \/ boardStatus[c] # null
                       \/ countOf(boards[c], "O") > countOf(boards[c], "X")}
      score(c) ==
        countOf(boards[c], "O") * 2 - countOf(boards[c], "X")
          + (IF findWinningMove(boards[c], "X") # NotFound THEN -5 ELSE 0)
          + (IF countOf(boards[c], "O") >= 1 /\ countOf(boards[c], null) > 5
               THEN 3 ELSE 0)
  IN  IF strategicCells # {} THEN {Move(boardIndex, c) : c \in strategicCells}
      ELSE IF empty = {} THEN {Move(boardIndex, UndefinedIdx)}
      ELSE {Move(boardIndex, bestOf(empty, [c \in empty |-> score(c)]))}

\* hard and impossible of the enhanced selector once no win and no block exists
enhancedChoice(boards, boardStatus, valid, picked, difficulty) ==
  LET forkB == firstForkBoard(valid, boards, "O")
      blockForkB == firstForkBoard(valid, boards, "X")
      boardIndex == IF Cardinality(valid) > 1
                      THEN findBestBoardEnhanced(valid, boards, boardStatus)
                      ELSE picked
  IN  IF forkB # NotFound THEN {Move(forkB, findForkMove(boards[forkB], "O"))}
      ELSE IF blockForkB # NotFound
        THEN {Move(blockForkB, findForkMove(boards[blockForkB], "X"))}
      ELSE IF boardIndex = UndefinedIdx THEN {Thrown}
      ELSE LET empty == emptyCells(boards[boardIndex])
           IN  IF 4 \in empty THEN {Move(boardIndex, 4)}
               ELSE IF empty \cap {0, 2, 6, 8} # {}
                 THEN {Move(boardIndex, c) : c \in empty \cap {0, 2, 6, 8}}
               ELSE IF empty \cap {1, 3, 5, 7} # {}
                 THEN {Move(boardIndex, c) : c \in empty \cap {1, 3, 5, 7}}
               ELSE IF difficulty = "impossible"
                 THEN impossibleChoice(boards, boardStatus, boardIndex)
               ELSE randomCellOn(boards, boardIndex)

getBotMoveEnhanced(boards, boardStatus, nextBoardIndex, difficulty) ==
  LET valid == validBoardIndices(boardStatus, nextBoardIndex)
      winB == firstWinningBoard(valid, boards, "O")
      blockB == firstWinningBoard(valid, boards, "X")
  IN  UNION {
        IF difficulty = "easy" THEN randomCellOn(boards, picked)
        ELSE IF winB # NotFound
          THEN {Move(winB, findWinningMove(boards[winB], "O"))}
        ELSE IF blockB # NotFound
          THEN {Move(blockB, findWinningMove(boards[blockB], "X"))}
        ELSE IF difficulty \in {"hard", "impossible"}
          THEN enhancedChoice(boards, boardStatus, valid, picked, difficulty)
        ELSE randomCellOn(boards, picked)
        : picked \in randomPick(valid) }

(***************************************************************************)
(* Actions as dispatched to the reducer, and the reducer's switch.         *)
(* BOT_MOVE is not in the switch below: it draws a move at random, see the *)
(* action BOT_MOVE.                                                        *)
(***************************************************************************)
noSettings ==
  [ turnTimeLimit |-> 30, timerEnabled |-> TRUE, playerSymbols |-> "XO",
    botMode |-> FALSE, difficulty |-> "medium", multiplayerMode |-> FALSE ]

Act(type) ==
  [type |-> type, boardIndex |-> NoBoard, cellIndex |-> NotFound, settings |-> noSettings]

ActMove(type, b, c) ==
  [type |-> type, boardIndex |-> b, cellIndex |-> c, settings |-> noSettings]

ActSettings(settings) ==
  [ type |-> "UPDATE_SETTINGS", boardIndex |-> NoBoard, cellIndex |-> NotFound,
    settings |-> settings ]

GameCode == "GAME01"

gameReducer(s, a) ==
  CASE a.type = "MAKE_MOVE" -> ReduceMakeMove(s, a.boardIndex, a.cellIndex)
    [] a.type = "START_GAME" -> ReduceStartGame(s)
    [] a.type = "STOP_GAME" -> ReduceStopGame(s)
    [] a.type = "TOGGLE_BOT_MODE" -> ReduceToggleBotMode(s)
    [] a.type = "UNDO" -> ReduceUndo(s)
    [] a.type = "REDO" -> ReduceRedo(s)
    [] a.type = "RESTART" -> ReduceRestart(s)
    [] a.type = "PAUSE" -> ReducePause(s)
    [] a.type = "RESUME" -> ReduceResume(s)
    [] a.type = "TICK_TIMER" -> ReduceTickTimer(s)
    [] a.type = "TIME_UP" -> ReduceTimeUp(s)
    [] a.type = "HIDE_CONFETTI" -> ReduceHideConfetti(s)
    [] a.type = "OPPONENT_MOVE" -> ReduceOpponentMove(s, a.boardIndex, a.cellIndex)
    [] a.type = "CREATE_MULTIPLAYER_GAME" -> ReduceCreateMultiplayerGame(s, GameCode, TRUE)
    [] a.type = "JOIN_MULTIPLAYER_GAME" -> ReduceJoinMultiplayerGame(s, GameCode, FALSE)
    [] a.type = "UPDATE_SETTINGS" -> ReduceUpdateSettings(s, a.settings)
    [] a.type = "SYNC_START_GAME" -> ReduceSyncStartGame(s)
    [] OTHER -> s

(***************************************************************************)
(* Recorded games.  Each is a sequence of moves played from the fresh      *)
(* board after START_GAME.  A run first replays one of the Scripts, action *)
(* by action through the actions below, and then takes MaxSteps further   *)
(* actions of any kind.                                                    *)
(***************************************************************************)
\* 16 moves after which sub-board 0 is full without a line
GameDrawnBoard ==
  <<
     <<0, 4>>, <<4, 0>>, <<0, 5>>, <<5, 0>>, <<0, 7>>, <<7, 0>>, <<0, 2>>,
     <<2, 0>>, <<0, 0>>, <<0, 3>>, <<3, 0>>, <<0, 6>>, <<6, 0>>, <<0, 8>>,
     <<8, 0>>, <<0, 1>> >>

\* 16 moves after which X holds sub-boards 0 and 1 and wins with (2, 2)
GameMetaWin ==
  <<
     <<0, 0>>, <<0, 1>>, <<1, 0>>, <<0, 2>>, <<2, 1>>, <<1, 1>>, <<1, 3>>,
     <<3, 0>>, <<0, 3>>, <<3, 1>>, <<1, 6>>, <<6, 0>>, <<0, 6>>, <<6, 1>>,
     <<2, 0>>, <<4, 0>> >>

\* 51 moves after which (3, 1) resolves the last open sub-board: every
\* sub-board is then won or full, and no three won ones are in a line
GameGlobalDraw ==
  <<
     <<7, 8>>, <<8, 2>>, <<2, 0>>, <<0, 5>>, <<5, 0>>, <<0, 4>>, <<4, 3>>,
     <<3, 5>>, <<5, 1>>, <<1, 4>>, <<4, 6>>, <<6, 4>>, <<4, 1>>, <<1, 0>>,
     <<0, 8>>, <<8, 5>>, <<5, 2>>, <<2, 8>>, <<8, 6>>, <<6, 6>>, <<6, 5>>,
     <<1, 3>>, <<3, 2>>, <<2, 6>>, <<6, 8>>, <<8, 7>>, <<7, 3>>, <<3, 4>>,
     <<4, 0>>, <<0, 3>>, <<3, 0>>, <<7, 4>>, <<7, 7>>, <<7, 6>>, <<6, 7>>,
     <<7, 2>>, <<2, 7>>, <<2, 3>>, <<3, 3>>, <<3, 6>>, <<6, 2>>, <<2, 1>>,
     <<1, 7>>, <<8, 3>>, <<3, 8>>, <<8, 4>>, <<2, 2>>, <<2, 5>>, <<3, 7>>,
     <<1, 8>>, <<2, 4>> >>

\* 19 moves after which sub-board 0 is full without a line, O holds cells 0
\* and 2 of sub-board 6, and X has just sent O to sub-board 0
GameBotStuck ==
  <<
     <<0, 4>>, <<4, 0>>, <<0, 5>>, <<5, 0>>, <<0, 0>>, <<0, 3>>, <<3, 0>>,
     <<0, 1>>, <<1, 0>>, <<0, 7>>, <<7, 0>>, <<0, 8>>, <<8, 0>>, <<0, 2>>,
     <<2, 6>>, <<6, 0>>, <<0, 6>>, <<6, 2>>, <<2, 0>> >>

\* 21 moves after which sub-board 0 is full without a line, X holds cells 0
\* and 2 of sub-board 1, O has no two in a line with the third cell empty,
\* and X has just sent O to sub-board 0
GameBlockStuck ==
  <<
     <<0, 4>>, <<4, 0>>, <<0, 5>>, <<5, 0>>, <<0, 0>>, <<0, 3>>, <<3, 0>>,
     <<0, 1>>, <<1, 0>>, <<0, 7>>, <<7, 0>>, <<0, 8>>, <<8, 0>>, <<0, 2>>,
     <<2, 2>>, <<2, 1>>, <<1, 2>>, <<2, 0>>, <<0, 6>>, <<6, 6>>, <<6, 0>> >>

\* 9 moves after which O holds cells 0 and 7 of sub-board 4, X holds cell 8
\* of it, and X has just sent O to sub-board 4: cell 1 is a fork for O
GameFork ==
  << <<0, 4>>, <<4, 0>>, <<0, 1>>, <<1, 4>>, <<4, 8>>, <<8, 2>>, <<2, 4>>,
     <<4, 7>>, <<7, 4>> >>

\* 3 moves after which X holds cells 0 and 1 of sub-board 4 and O is sent
\* to the empty sub-board 1
GameThreat ==
  << <<4, 0>>, <<0, 4>>, <<4, 1>> >>

MovesOf(game, n) == [i \in 1..n |-> ActMove("MAKE_MOVE", game[i][1], game[i][2])]

Played(game, n) == <<Act("START_GAME")>> \o MovesOf(game, n)

botSettings(difficulty) ==
  [ turnTimeLimit |-> 30, timerEnabled |-> FALSE, playerSymbols |-> "XO",
    botMode |-> TRUE, difficulty |-> difficulty, multiplayerMode |-> FALSE ]

timerSettings ==
  [ turnTimeLimit |-> 5, timerEnabled |-> TRUE, playerSymbols |-> "XO",
    botMode |-> FALSE, difficulty |-> "medium", multiplayerMode |-> FALSE ]

Scripts ==
  << << >>,
     Played(GameMetaWin, 3),
     Played(GameMetaWin, 3) \o <<Act("UNDO")>>,
     Played(GameMetaWin, 3) \o <<Act("PAUSE")>>,
     Played(GameDrawnBoard, 16),
     Played(GameMetaWin, 16),
     Played(GameMetaWin, 16) \o <<ActMove("MAKE_MOVE", 2, 2)>>,
     Played(GameMetaWin, 16)
       \o <<ActMove("MAKE_MOVE", 2, 2), Act("START_GAME"),
            ActMove("MAKE_MOVE", 4, 1), Act("UNDO")>>,
     Played(GameGlobalDraw, 51),
     Played(GameMetaWin, 15) \o <<Act("CREATE_MULTIPLAYER_GAME")>>,
     Played(GameMetaWin, 2) \o <<Act("JOIN_MULTIPLAYER_GAME")>>,
     <<Act("CREATE_MULTIPLAYER_GAME"), ActMove("MAKE_MOVE", 4, 4)>>,
     <<ActSettings(botSettings("hard"))>> \o Played(GameMetaWin, 15),
     <<ActSettings(botSettings("hard"))>> \o Played(GameBotStuck, 19),
     <<ActSettings(botSettings("hard"))>> \o Played(GameThreat, 3),
     <<ActSettings(botSettings("hard"))>> \o Played(GameThreat, 3)
       \o <<Act("PAUSE")>>,
     <<ActSettings(botSettings("hard"))>> \o Played(GameThreat, 3)
       \o <<Act("RESTART")>>,
     <<ActSettings(botSettings("hard"))>> \o Played(GameBotStuck, 19)
       \o <<Act("PAUSE")>>,
     <<ActSettings(timerSettings), Act("START_GAME")>>
       \o [i \in 1..5 |-> Act("TICK_TIMER")],
     Played(GameBlockStuck, 21),
     Played(GameFork, 9) >>

(***************************************************************************)
(* The state machine: one action per dispatch site of GameProvider.        *)
(***************************************************************************)
MaxSteps == 1

\* the settings a host submits through updateSettings
SettingsInputs ==
  { timerSettings,
    botSettings("hard"),
    [ turnTimeLimit |-> 0, timerEnabled |-> TRUE, playerSymbols |-> "AB",
      botMode |-> FALSE, difficulty |-> "easy", multiplayerMode |-> FALSE ],
    [ turnTimeLimit |-> 30, timerEnabled |-> TRUE, playerSymbols |-> "XO",
      botMode |-> FALSE, difficulty |-> "medium", multiplayerMode |-> TRUE ] }

Replaying == pos < Len(Scripts[script])

\* the host dispatches a: the next action of the recorded game while it is
\* being replayed, any action afterwards
Scheduled(a) ==
  /\ IF Replaying
       THEN a = Scripts[script][pos + 1] /\ pos' = pos + 1 /\ steps' = steps
       ELSE steps < MaxSteps /\ steps' = steps + 1 /\ pos' = pos
  /\ last' = [action |-> a, pre |-> state]
  /\ UNCHANGED <<script, botIn, botOut, effects, peers>>

Dispatch(a) ==
  /\ Scheduled(a)
  /\ state' = gameReducer(state, a)

MAKE_MOVE ==
  \E b \in Idx, c \in Idx :
    /\ Dispatch(ActMove("MAKE_MOVE", b, c))

\* the bot effect: a timeout set while botMode, playing and O to move
ReduceBotMove(s, move) ==
  IF ~s.botMode \/ s.gameStatus # "playing" \/ s.currentPlayer # "O"
    THEN s
    ELSE IF move.boardIndex = UndefinedIdx \/ move.cellIndex = UndefinedIdx
      THEN s
      ELSE ReduceMakeMove(s, move.boardIndex, move.cellIndex)

BOT_MOVE ==
  /\ state.botMode /\ state.gameStatus = "playing" /\ state.currentPlayer = "O"
  /\ \E move \in getBotMove(state.boards, state.boardStatus,
                            state.nextBoardIndex, state.difficulty) :
       /\ Scheduled(ActMove("BOT_MOVE", move.boardIndex, move.cellIndex))
       /\ state' = ReduceBotMove(state, move)

START_GAME ==
  /\ Dispatch(Act("START_GAME"))

STOP_GAME ==
  /\ Dispatch(Act("STOP_GAME"))

TOGGLE_BOT_MODE ==
  /\ Dispatch(Act("TOGGLE_BOT_MODE"))

UNDO ==
  /\ Dispatch(Act("UNDO"))

REDO ==
  /\ Dispatch(Act("REDO"))

RESTART ==
  /\ Dispatch(Act("RESTART"))

PAUSE ==
  /\ Dispatch(Act("PAUSE"))

RESUME ==
  /\ Dispatch(Act("RESUME"))

\* the timer effect: the interval runs while playing with the timer enabled
TICK_TIMER ==
  /\ state.gameStatus = "playing" /\ state.timerEnabled
  /\ Dispatch(Act("TICK_TIMER"))

\* the timer effect dispatches TIME_UP when it renders with no time left
TIME_UP ==
  /\ state.gameStatus = "playing" /\ state.timerEnabled
  /\ state.turnTimeRemaining <= 0
  /\ Dispatch(Act("TIME_UP"))

HIDE_CONFETTI ==
  /\ state.showConfetti
  /\ Dispatch(Act("HIDE_CONFETTI"))

\* the multiplayer listener forwards every opponent-move event it receives
OPPONENT_MOVE ==
  /\ state.multiplayerMode
  /\ \E b \in Idx, c \in Idx : Dispatch(ActMove("OPPONENT_MOVE", b, c))

CREATE_MULTIPLAYER_GAME ==
  /\ Dispatch(Act("CREATE_MULTIPLAYER_GAME"))

JOIN_MULTIPLAYER_GAME ==
  /\ Dispatch(Act("JOIN_MULTIPLAYER_GAME"))

UPDATE_SETTINGS ==
  \E settings \in SettingsInputs :
    /\ Dispatch(ActSettings(settings))

SYNC_START_GAME ==
  /\ state.multiplayerMode
  /\ Dispatch(Act("SYNC_START_GAME"))

\* the provider is mounted again (page reload) with the last saved state in
\* localStorage.  The save effect stores every state, and JSON keeps every
\* field of it (booleans, numbers, strings, null and arrays of them).  The
\* load effect restores only playing and paused games: it dispatches RESTART
\* and then writes the saved fields into the current state object.  A React
\* that computes the reducer eagerly at dispatch applies RESTART to the
\* initial state; one that computes it at the next render applies it to the
\* object that by then holds the saved fields.
restoreSavedGame(parsedState) ==
  IF parsedState.gameStatus \in {"playing", "paused"}
    THEN {ReduceRestart(initialState), ReduceRestart(parsedState)}
    ELSE {initialState}

LoadSavedGame ==
  \E restored \in restoreSavedGame(state) :
    /\ Scheduled(Act("LOAD_SAVED_GAME"))
    /\ state' = restored

noBotCall ==
  [ version |-> "none", boards |-> initialBoards, boardStatus |-> initialBoardStatus,
    nextBoardIndex |-> NoBoard, difficulty |-> "easy" ]

\* the timers of the provider's effects: the bot timeout and the tick
\* interval that are armed, whether the effects of the latest render have
\* run, whether the latest dispatch came from a callback that fired before
\* they ran, the type of the action dispatched before the latest one, and
\* the number of ticks that counted since the turn began, and whether a
\* TIME_UP dispatched by the timer effect waits behind the latest dispatch
noEffects ==
  [ botTimer |-> FALSE, tickTimer |-> FALSE, flushed |-> TRUE, late |-> FALSE,
    after |-> "INIT", ticks |-> 0, timeUp |-> FALSE ]

\* the guest's GameState and the moves in flight in either direction
noPeers == [guest |-> initialState, toHost |-> << >>, toGuest |-> << >>]

Init ==
  /\ state = initialState
  /\ last = [action |-> Act("INIT"), pre |-> initialState]
  /\ script \in 1..Len(Scripts)
  /\ pos = 0
  /\ steps = 0
  /\ botIn = noBotCall
  /\ botOut = {}
  /\ effects = noEffects
  /\ peers = noPeers

Next ==
  \/ MAKE_MOVE
  \/ BOT_MOVE
  \/ START_GAME
  \/ STOP_GAME
  \/ TOGGLE_BOT_MODE
  \/ UNDO
  \/ REDO
  \/ RESTART
  \/ PAUSE
  \/ RESUME
  \/ TICK_TIMER
  \/ TIME_UP
  \/ HIDE_CONFETTI
  \/ OPPONENT_MOVE
  \/ CREATE_MULTIPLAYER_GAME
  \/ JOIN_MULTIPLAYER_GAME
  \/ UPDATE_SETTINGS
  \/ SYNC_START_GAME
  \/ LoadSavedGame

Spec == Init /\ [][Next]_vars

(***************************************************************************)
(* The selector examined on its own: a recorded game is replayed and, at   *)
(* any position of it where the game is on and O is to move, getBotMove is *)
(* called once, in either version and at each difficulty that version      *)
(* knows.  botOut is everything the call can return.                       *)
(***************************************************************************)
Difficulties(version) ==
  IF version = "enhanced" THEN {"easy", "medium", "hard", "impossible"}
  ELSE {"easy", "medium", "hard"}

selectorResult(version, boards, boardStatus, nextBoardIndex, difficulty) ==
  IF version = "enhanced"
    THEN getBotMoveEnhanced(boards, boardStatus, nextBoardIndex, difficulty)
    ELSE getBotMove(boards, boardStatus, nextBoardIndex, difficulty)

Replay ==
  /\ Replaying
  /\ botIn.version = "none"
  /\ Dispatch(Scripts[script][pos + 1])

BotCall ==
  /\ botIn.version = "none"
  /\ state.gameStatus = "playing" /\ state.currentPlayer = "O"
  /\ \E version \in {"current", "enhanced"} :
       \E difficulty \in Difficulties(version) :
         /\ botIn' = [ version |-> version, boards |-> state.boards,
                       boardStatus |-> state.boardStatus,
                       nextBoardIndex |-> state.nextBoardIndex,
                       difficulty |-> difficulty ]
         /\ botOut' = selectorResult(version, state.boards, state.boardStatus,
                                     state.nextBoardIndex, difficulty)
  /\ UNCHANGED <<state, last, script, pos, steps, effects, peers>>

NextBot ==
  \/ Replay
  \/ BotCall

SpecBot == Init /\ [][NextBot]_vars

(***************************************************************************)
(* The provider's timers.  The bot effect arms a one-shot timeout that     *)
(* dispatches BOT_MOVE, the timer effect arms an interval that dispatches  *)
(* TICK_TIMER and dispatches TIME_UP itself when it runs with no time      *)
(* left.  An effect runs again, after the cleanup of its previous run,     *)
(* when one of its dependencies changed in the latest render.  Effects run *)
(* some time after the render: until then the timers of the previous       *)
(* render are still armed and may fire (a late callback); they are always  *)
(* run before the next dispatch is rendered.                               *)
(***************************************************************************)
MaxHost == 1

botEffectDeps(s) == <<s.botMode, s.gameStatus, s.currentPlayer>>

botEffectArms(s) ==
  s.botMode /\ s.gameStatus = "playing" /\ s.currentPlayer = "O"

timerEffectDeps(s) ==
  <<s.gameStatus, s.turnTimeRemaining, s.timerEnabled, s.currentPlayer,
    s.playerSymbols>>

timerEffectArms(s) == s.gameStatus = "playing" /\ s.timerEnabled

\* the effects of the render of new run, the previous render being of old
runEffects(e, old, new) ==
  [ e EXCEPT
      !.botTimer = IF botEffectDeps(new) = botEffectDeps(old)
                     THEN e.botTimer ELSE botEffectArms(new),
      !.tickTimer = IF timerEffectDeps(new) = timerEffectDeps(old)
                      THEN e.tickTimer ELSE timerEffectArms(new),
      !.flushed = TRUE ]

\* the timers once the effects of the latest render have run
Settled == IF effects.flushed THEN effects ELSE runEffects(effects, last.pre, state)

\* the timer effect is about to run with no time left, or it ran so when a
\* late callback made the effects run and its TIME_UP is still to be reduced
TimeUpDue ==
  \/ effects.timeUp
  \/ /\ ~effects.flushed
     /\ timerEffectDeps(state) # timerEffectDeps(last.pre)
     /\ timerEffectArms(state)
     /\ state.turnTimeRemaining <= 0

\* the ticks counted in the turn once a has yielded the state s: a turn
\* begins when the player to move changes, on a restart and on new settings
TicksAfter(a, s) ==
  IF a.type = "TICK_TIMER"
    THEN IF s = state THEN effects.ticks ELSE effects.ticks + 1
    ELSE IF a.type \in {"RESTART", "UPDATE_SETTINGS"}
            \/ s.currentPlayer # state.currentPlayer
      THEN 0
      ELSE effects.ticks

\* a dispatch of a that finds the timers e and yields the state s
Rendered(a, s, e, late) ==
  /\ state' = s
  /\ last' = [action |-> a, pre |-> state]
  /\ effects' = [ e EXCEPT !.flushed = (s = state), !.late = late,
                           !.after = last.action.type,
                           !.ticks = TicksAfter(a, s),
                           !.timeUp = (late /\ TimeUpDue) ]
  /\ UNCHANGED <<script, botIn, botOut, peers>>

HostControls == {"START_GAME", "PAUSE", "RESUME", "RESTART"}

\* the recorded games followed with their timers: the games against the
\* bot, the game on a five second clock and the game left paused
TimedGame ==
  /\ Scripts[script] # << >>
  /\ \/ Scripts[script][1].type = "UPDATE_SETTINGS"
     \/ Scripts[script][Len(Scripts[script])].type = "PAUSE"

\* the host replays the recorded game, then uses the game controls
HostDispatch ==
  /\ TimedGame
  /\ ~TimeUpDue
  /\ \E a \in IF Replaying THEN {Scripts[script][pos + 1]}
                           ELSE {Act(type) : type \in HostControls} :
       /\ IF Replaying THEN pos' = pos + 1 /\ steps' = steps
                       ELSE steps < MaxHost /\ steps' = steps + 1 /\ pos' = pos
       /\ Rendered(a, gameReducer(state, a), Settled, FALSE)

\* the bot timeout fires: in time, or late, before the effects of the
\* latest render have cleared it
BotTimerFires ==
  /\ ~Replaying
  /\ UNCHANGED <<pos, steps>>
  /\ \E late \in BOOLEAN :
       LET armed == IF late THEN effects ELSE Settled
           spent == [armed EXCEPT !.botTimer = FALSE]
           e == IF late THEN runEffects(spent, last.pre, state) ELSE spent
       IN /\ late => ~effects.flushed
          /\ ~late => ~TimeUpDue
          /\ armed.botTimer
          /\ IF botEffectArms(state)
               THEN \E move \in getBotMove(state.boards, state.boardStatus,
                                           state.nextBoardIndex, state.difficulty) :
                      Rendered(ActMove("BOT_MOVE", move.boardIndex, move.cellIndex),
                               ReduceBotMove(state, move), e, late)
               ELSE Rendered(Act("BOT_MOVE"), state, e, late)

\* the tick interval fires, in time or late
TickTimerFires ==
  /\ ~Replaying
  /\ UNCHANGED <<pos, steps>>
  /\ \E late \in BOOLEAN :
       LET armed == IF late THEN effects ELSE Settled
           e == IF late THEN runEffects(armed, last.pre, state) ELSE armed
       IN /\ late => ~effects.flushed
          /\ ~late => ~TimeUpDue
          /\ armed.tickTimer
          /\ Rendered(Act("TICK_TIMER"), ReduceTickTimer(state), e, late)

\* the timer effect runs with no time left and dispatches TIME_UP
TimerEffectTimeUp ==
  /\ TimeUpDue
  /\ UNCHANGED <<pos, steps>>
  /\ Rendered(Act("TIME_UP"), ReduceTimeUp(state), Settled, FALSE)

NextTimers ==
  \/ HostDispatch
  \/ BotTimerFires
  \/ TickTimerFires
  \/ TimerEffectTimeUp

SpecTimers ==
  /\ Init
  /\ [][NextTimers]_vars
  /\ WF_vars(BotTimerFires)
  /\ WF_vars(TickTimerFires)
  /\ WF_vars(TimerEffectTimeUp)

(***************************************************************************)
(* A multiplayer session of two browsers.  state is the GameState of the   *)
(* host's provider and peers.guest that of the guest's.  Each player opens *)
(* the multiplayer dialog, which submits the multiplayer settings; the     *)
(* service answers the host's create with game-created and the guest's     *)
(* join with game-joined.  A move the reducer accepts is sent to the other *)
(* browser, where it arrives as opponent-move.  Each provider runs its own *)
(* turn timer; in the sessions followed here both players set the five    *)
(* second clock in the settings drawer before the game is created and      *)
(* joined.  The players follow the moves of GameMetaWin.                   *)
(***************************************************************************)
MaxPlies == 2

Host == "host"
Guest == "guest"

PeerState(p) == IF p = Host THEN state ELSE peers.guest

OtherPeer(p) == IF p = Host THEN Guest ELSE Host

multiplayerSettings ==
  [ turnTimeLimit |-> 30, timerEnabled |-> TRUE, playerSymbols |-> "XO",
    botMode |-> FALSE, difficulty |-> "medium", multiplayerMode |-> TRUE ]

InSession(s) == s.multiplayerMode /\ s.gameCode = GameCode

OnShortClock(s) == s.turnTimeLimit = timerSettings.turnTimeLimit

\* the timer effect of s is about to dispatch TIME_UP
Expired(s) ==
  s.gameStatus = "playing" /\ s.timerEnabled /\ s.turnTimeRemaining <= 0

\* peer p has dispatched a, which yielded s; sent is what it put on the wire
PeerDispatched(p, a, s, sent) ==
  /\ Scripts[script] = << >>
  /\ last' = [action |-> a, pre |-> PeerState(p)]
  /\ state' = IF p = Host THEN s ELSE state
  /\ peers' = [ guest |-> IF p = Guest THEN s ELSE peers.guest,
                toHost |-> IF p = Guest THEN peers.toHost \o sent ELSE peers.toHost,
                toGuest |-> IF p = Host THEN peers.toGuest \o sent ELSE peers.toGuest ]
  /\ UNCHANGED <<script, pos, steps, botIn, botOut, effects>>

\* handleCreateGame / handleJoinGame: updateSettings with multiplayerMode
PeerOpensMultiplayer ==
  \E p \in {Host, Guest} :
    /\ ~PeerState(p).multiplayerMode
    /\ PeerDispatched(p, ActSettings(multiplayerSettings),
                      ReduceUpdateSettings(PeerState(p), multiplayerSettings), << >>)

\* the settings drawer: the five second clock
PeerSetsClock ==
  \E p \in {Host, Guest} :
    /\ PeerState(p).multiplayerMode /\ ~InSession(PeerState(p))
    /\ ~OnShortClock(PeerState(p))
    /\ PeerDispatched(p, ActSettings(timerSettings),
                      ReduceUpdateSettings(PeerState(p), timerSettings), << >>)

\* the host's listener receives game-created
HostCreated ==
  /\ state.multiplayerMode /\ ~InSession(state)
  /\ OnShortClock(state)
  /\ PeerDispatched(Host, Act("CREATE_MULTIPLAYER_GAME"),
                    ReduceCreateMultiplayerGame(state, GameCode, TRUE), << >>)

\* the guest's listener receives game-joined for the game the host created
GuestJoined ==
  /\ InSession(state)
  /\ peers.guest.multiplayerMode /\ ~InSession(peers.guest)
  /\ OnShortClock(peers.guest)
  /\ PeerDispatched(Guest, Act("JOIN_MULTIPLAYER_GAME"),
                    ReduceJoinMultiplayerGame(peers.guest, GameCode, FALSE), << >>)

\* a player clicks the cell of the next move of the recorded game; the
\* reducer sends the move to the other browser when it accepts it
PeerSubmitsMove ==
  \E p \in {Host, Guest} :
    LET s == PeerState(p)
        ply == Len(s.moveHistory) + 1
        b == GameMetaWin[ply][1]
        c == GameMetaWin[ply][2]
        s2 == ReduceMakeMove(s, b, c)
    IN  /\ InSession(state) /\ InSession(peers.guest)
        /\ ~Expired(s)
        /\ Len(s.moveHistory) < MaxPlies
        /\ PeerDispatched(p, ActMove("MAKE_MOVE", b, c), s2,
                          IF s2 # s THEN <<Move(b, c)>> ELSE << >>)

\* the oldest move on the wire to p arrives as opponent-move
OpponentMoveDelivered ==
  \E p \in {Host, Guest} :
    LET wire == IF p = Host THEN peers.toHost ELSE peers.toGuest
        m == Head(wire)
        s == PeerState(p)
    IN  /\ wire # << >>
        /\ ~Expired(s)
        /\ Scripts[script] = << >>
        /\ last' = [ action |-> ActMove("OPPONENT_MOVE", m.boardIndex, m.cellIndex),
                     pre |-> s ]
        /\ state' = IF p = Host
                      THEN ReduceOpponentMove(s, m.boardIndex, m.cellIndex)
                      ELSE state
        /\ peers' = [ guest |-> IF p = Guest
                                  THEN ReduceOpponentMove(s, m.boardIndex, m.cellIndex)
                                  ELSE peers.guest,
                      toHost |-> IF p = Host THEN Tail(wire) ELSE peers.toHost,
                      toGuest |-> IF p = Guest THEN Tail(wire) ELSE peers.toGuest ]
        /\ UNCHANGED <<script, pos, steps, botIn, botOut, effects>>

\* the tick interval of p's provider fires
PeerTicks ==
  \E p \in {Host, Guest} :
    /\ timerEffectArms(PeerState(p))
    /\ ~Expired(PeerState(p))
    /\ PeerDispatched(p, Act("TICK_TIMER"), ReduceTickTimer(PeerState(p)), << >>)

\* the timer effect of p's provider runs with no time left
PeerTimeUp ==
  \E p \in {Host, Guest} :
    /\ Expired(PeerState(p))
    /\ PeerDispatched(p, Act("TIME_UP"), ReduceTimeUp(PeerState(p)), << >>)

NextPeers ==
  \/ PeerOpensMultiplayer
  \/ PeerSetsClock
  \/ HostCreated
  \/ GuestJoined
  \/ PeerSubmitsMove
  \/ OpponentMoveDelivered
  \/ PeerTicks
  \/ PeerTimeUp

SpecPeers == Init /\ [][NextPeers]_vars

(***************************************************************************)
(* Vocabulary of the properties.                                           *)
(***************************************************************************)
\* the outcome of sub-board i: won by X or O, Draw when full and unwon, else Open
StatusOf(s, i) ==
  IF s.boardStatus[i] # null THEN s.boardStatus[i]
  ELSE IF \A c \in Idx : s.boards[i][c] # null THEN "Draw"
  ELSE "Open"

\* the last action was a local move, and whether the reducer took it
LastIs(type) == last.action.type = type

Changed == state # last.pre

LastMoveAccepted == LastIs("MAKE_MOVE") /\ Changed

\* some line of the meta-board is won three times by player p
MetaLine(s, p) ==
  \E i \in 1..8 : \A k \in 1..3 : s.boardStatus[lines[i][k]] = p

AllResolved(s) == \A i \in Idx : StatusOf(s, i) # "Open"

\* the fields of a game that undo and redo are to restore
GameOf(s) ==
  << s.boards, s.boardStatus, s.nextBoardIndex, s.currentPlayer, s.gameStatus,
     s.winner, s.currentMoveIndex, s.moveHistory >>

(***************************************************************************)
(* C1: MAKE_MOVE (b, c) leaves the whole state unchanged when the phase is *)
(* not playing, or a constraint is set and differs from b, or sub-board b  *)
(* is not Open, or cell (b, c) is occupied, or the session is multiplayer  *)
(* and it is not the local player's turn; in every other case the move is  *)
(* accepted: the mover's symbol is written and the cursor advances.        *)
(***************************************************************************)
C1_Rejects(s, b, c) ==
  \/ s.gameStatus # "playing"
  \/ s.nextBoardIndex \notin {NoBoard, b}
  \/ StatusOf(s, b) # "Open"
  \/ s.boards[b][c] \in Players
  \/ (s.multiplayerMode /\ ~s.isMyTurn)

C1_RejectedMovesChangeNothing ==
  LastIs("MAKE_MOVE") =>
    LET b == last.action.boardIndex
        c == last.action.cellIndex
    IN  IF C1_Rejects(last.pre, b, c)
          THEN state = last.pre
          ELSE /\ state.boards[b][c] = last.pre.currentPlayer
               /\ state.currentMoveIndex = last.pre.currentMoveIndex + 1
               /\ state.currentPlayer # last.pre.currentPlayer

\* a move to a board other than the constrained one was submitted and refused
C1_Witness ==
  /\ LastIs("MAKE_MOVE")
  /\ state = last.pre
  /\ state.gameStatus = "playing"
  /\ state.nextBoardIndex \notin {NoBoard, last.action.boardIndex}
  /\ state.boards[last.action.boardIndex][last.action.cellIndex] = null
  /\ StatusOf(state, last.action.boardIndex) = "Open"

(***************************************************************************)
(* C2: redirect law.  After an accepted move with cellIndex = k the        *)
(* constraint is k if sub-board k is Open (not won, not full) in the new   *)
(* state, and none otherwise.                                              *)
(***************************************************************************)
C2_RedirectLaw ==
  LastMoveAccepted =>
    LET k == last.action.cellIndex
    IN  state.nextBoardIndex = IF StatusOf(state, k) = "Open" THEN k ELSE NoBoard

(***************************************************************************)
(* C3: no move application (local, bot or opponent) changes the outcome of *)
(* a sub-board that was already won or drawn.                              *)
(***************************************************************************)
C3_DecidedStatusIsFinal ==
  ((LastIs("MAKE_MOVE") \/ LastIs("BOT_MOVE") \/ LastIs("OPPONENT_MOVE")) /\ Changed) =>
    \A i \in Idx :
      StatusOf(last.pre, i) # "Open" => StatusOf(state, i) = StatusOf(last.pre, i)

(***************************************************************************)
(* C4: redo after an effective undo restores the game the undo started     *)
(* from (boards, outcomes, constraint, player to move, phase, winner,      *)
(* cursor, history).                                                       *)
(***************************************************************************)
C4_RedoRestoresUndo ==
  (LastIs("UNDO") /\ Changed) => GameOf(ReduceRedo(state)) = GameOf(last.pre)

(***************************************************************************)
(* C5: an opponent move to a board other than the constrained one, to a    *)
(* decided board or to an occupied cell is rejected and changes nothing.   *)
(***************************************************************************)
C5_OpponentMoveValidated ==
  LastIs("OPPONENT_MOVE") =>
    LET b == last.action.boardIndex
        c == last.action.cellIndex
        s == last.pre
    IN  ( \/ s.nextBoardIndex \notin {NoBoard, b}
          \/ StatusOf(s, b) # "Open"
          \/ s.boards[b][c] \in Players ) => state = s

(***************************************************************************)
(* C6: an opponent move delivered while it is the local player's turn      *)
(* leaves the state unchanged.                                             *)
(***************************************************************************)
C6_OpponentMoveOnlyOnTheirTurn ==
  (LastIs("OPPONENT_MOVE") /\ last.pre.isMyTurn) => state = last.pre

(***************************************************************************)
(* C7: global draw.  When an accepted move leaves every sub-board won or   *)
(* full and no meta line is won, the game is over without a winner and no  *)
(* further move is accepted.                                               *)
(***************************************************************************)
C7_GlobalDrawEndsGame ==
  ( /\ LastMoveAccepted
    /\ AllResolved(state)
    /\ ~MetaLine(state, "X") /\ ~MetaLine(state, "O") ) =>
      /\ state.gameStatus = "game-over"
      /\ state.winner = null
      /\ \A b \in Idx, c \in Idx : ReduceMakeMove(state, b, c) = state

(***************************************************************************)
(* C8: the winner is X or O only if that player has won all three          *)
(* sub-boards of one of the 8 lines; a line with a drawn sub-board in it   *)
(* gives no winner.                                                        *)
(***************************************************************************)
C8_WinnerHasMetaLine ==
  state.winner \in Players => MetaLine(state, state.winner)

\* a move has just completed a line of three sub-boards won by X
C8_Witness ==
  /\ LastMoveAccepted
  /\ last.pre.winner = null
  /\ state.winner = "X"
  /\ state.gameStatus = "game-over"

(***************************************************************************)
(* Vocabulary of the selector's properties.  A sub-board is legal for the  *)
(* player to move when it is the constrained board and Open, or, with no   *)
(* constraint or a constraint that is not Open, when it is Open.           *)
(***************************************************************************)
OpenIn(in, b) ==
  in.boardStatus[b] = null /\ \E c \in Idx : in.boards[b][c] = null

LegalBoards(in) ==
  IF in.nextBoardIndex # NoBoard /\ OpenIn(in, in.nextBoardIndex)
    THEN {in.nextBoardIndex}
    ELSE {b \in Idx : OpenIn(in, b)}

LegalMoves(in) ==
  {m \in {Move(b, c) : b \in LegalBoards(in), c \in Idx} :
     in.boards[m.boardIndex][m.cellIndex] = null}

\* taking the empty cell c of board gives player three in a line
Completes(board, c, player) ==
  /\ board[c] = null
  /\ \E i \in 1..8 :
       /\ c \in {lines[i][1], lines[i][2], lines[i][3]}
       /\ \A k \in 1..3 : lines[i][k] # c => board[lines[i][k]] = player

WinningMoves(in) == {m \in LegalMoves(in) : Completes(in.boards[m.boardIndex], m.cellIndex, "O")}

\* the boards once O has played m
After(in, m) == [in.boards EXCEPT ![m.boardIndex][m.cellIndex] = "O"]

\* m sends X to a sub-board that stays open and where X can win at once
HandsWin(in, m) ==
  LET d == m.cellIndex
      boards == After(in, m)
  IN  /\ in.boardStatus[d] = null
      /\ checkWinner(boards[d]) = null
      /\ \E c \in Idx : Completes(boards[d], c, "X")

Called == botIn.version # "none"

(***************************************************************************)
(* C9: at medium, hard and impossible, when some empty cell of a legal     *)
(* board completes three in a line for O, every move the selector can      *)
(* return is such a cell.                                                  *)
(***************************************************************************)
C9_BotTakesWin ==
  ( /\ Called
    /\ botIn.difficulty \in {"medium", "hard", "impossible"}
    /\ WinningMoves(botIn) # {} ) => botOut \subseteq WinningMoves(botIn)

(***************************************************************************)
(* C10: at hard and impossible, when some legal cell does not hand X an    *)
(* immediate sub-board win, the selector returns no cell that does.        *)
(***************************************************************************)
C10_BotNeverHandsWin ==
  ( /\ Called
    /\ botIn.difficulty \in {"hard", "impossible"}
    /\ \E m \in LegalMoves(botIn) : ~HandsWin(botIn, m) ) =>
      \A m \in botOut : m \in LegalMoves(botIn) => ~HandsWin(botIn, m)

(***************************************************************************)
(* C11: in every reachable state the constraint is either none or the      *)
(* index of a sub-board that is Open (not won and with an empty cell).     *)
(***************************************************************************)
C11_ConstraintIsOpen ==
  state.nextBoardIndex # NoBoard => StatusOf(state, state.nextBoardIndex) = "Open"

(***************************************************************************)
(* C12: in every reachable state the cursor lies between -1 and the last   *)
(* index of the move history.                                              *)
(***************************************************************************)
C12_CursorInHistory ==
  /\ -1 <= state.currentMoveIndex
  /\ state.currentMoveIndex <= Len(state.moveHistory) - 1

\* an undo has left the cursor strictly inside the history
C12_Witness ==
  /\ LastIs("UNDO") /\ Changed
  /\ state.currentMoveIndex < Len(state.moveHistory) - 1
  /\ state.currentMoveIndex >= 0

(***************************************************************************)
(* C13: the phase changes only from init to playing by a start, from       *)
(* playing to paused by a pause, from paused to playing by a resume, from  *)
(* playing to game-over by a move, and from any phase to init by a         *)
(* restart.                                                                *)
(***************************************************************************)
C13_PhaseEdges ==
  LET from == last.pre.gameStatus
      to == state.gameStatus
      type == last.action.type
  IN  from # to =>
        \/ from = "init" /\ to = "playing"
             /\ type \in {"START_GAME", "CREATE_MULTIPLAYER_GAME", "JOIN_MULTIPLAYER_GAME"}
        \/ from = "playing" /\ to = "paused" /\ type = "PAUSE"
        \/ from = "paused" /\ to = "playing" /\ type = "RESUME"
        \/ from = "playing" /\ to = "game-over"
             /\ type \in {"MAKE_MOVE", "BOT_MOVE", "OPPONENT_MOVE"}
        \/ to = "init" /\ type = "RESTART"

(***************************************************************************)
(* C14: TIME_UP while playing with the timer enabled flips the player to   *)
(* move, sets the remaining time to the limit and leaves boards, outcomes, *)
(* constraint, history, cursor, phase and winner unchanged.                *)
(***************************************************************************)
C14_TimeUpPassesTurn ==
  ( /\ LastIs("TIME_UP")
    /\ last.pre.gameStatus = "playing"
    /\ last.pre.timerEnabled ) =>
      /\ state.currentPlayer = Other(last.pre.currentPlayer)
      /\ state.turnTimeRemaining = state.turnTimeLimit
      /\ state.turnTimeLimit = last.pre.turnTimeLimit
      /\ state.boards = last.pre.boards
      /\ state.boardStatus = last.pre.boardStatus
      /\ state.nextBoardIndex = last.pre.nextBoardIndex
      /\ state.moveHistory = last.pre.moveHistory
      /\ state.currentMoveIndex = last.pre.currentMoveIndex
      /\ state.gameStatus = last.pre.gameStatus
      /\ state.winner = last.pre.winner

\* the clock of a running game reached zero and the turn was passed
C14_Witness ==
  /\ LastIs("TIME_UP")
  /\ last.pre.gameStatus = "playing" /\ last.pre.timerEnabled
  /\ last.pre.turnTimeRemaining <= 0
  /\ state.currentPlayer # last.pre.currentPlayer

C16_UndoRedoNoOps ==
  /\ ( /\ LastIs("UNDO")
       /\ (last.pre.currentMoveIndex <= 0 \/ last.pre.multiplayerMode) )
       => state = last.pre
  /\ ( /\ LastIs("REDO")
       /\ \/ last.pre.currentMoveIndex >= Len(last.pre.moveHistory) - 1
          \/ last.pre.multiplayerMode )
       => state = last.pre
  /\ (LastIs("UNDO") \/ LastIs("REDO")) =>
       /\ state.boards \in [Idx -> [Idx -> Players \cup {null}]]
       /\ state.boardStatus \in [Idx -> Players \cup {null}]
       /\ state.nextBoardIndex \in Idx \cup {NoBoard}
       /\ state.currentPlayer \in Players

\* undo was asked for in a multiplayer session that has moves to take back
C16_Witness ==
  /\ LastIs("UNDO")
  /\ last.pre.multiplayerMode
  /\ last.pre.currentMoveIndex > 0
  /\ state = last.pre

(***************************************************************************)
(* C17: updateSettings does not alter the remaining time of the turn in    *)
(* progress; a new limit is first used as remaining time at the next       *)
(* accepted move or forfeiture.                                            *)
(***************************************************************************)
C17_SettingsKeepRemaining ==
  ( /\ LastIs("UPDATE_SETTINGS")
    /\ last.pre.gameStatus \in {"playing", "paused"} ) =>
      state.turnTimeRemaining = last.pre.turnTimeRemaining

(***************************************************************************)
(* C18: a playing or paused game that was saved and is loaded back at the  *)
(* start of a session has the boards, outcomes, history, cursor and        *)
(* settings it was saved with.                                             *)
(***************************************************************************)
C18_SnapshotRoundTrip ==
  ( /\ LastIs("LOAD_SAVED_GAME")
    /\ last.pre.gameStatus \in {"playing", "paused"} ) =>
      /\ state.boards = last.pre.boards
      /\ state.boardStatus = last.pre.boardStatus
      /\ state.moveHistory = last.pre.moveHistory
      /\ state.currentMoveIndex = last.pre.currentMoveIndex
      /\ state.turnTimeLimit = last.pre.turnTimeLimit
      /\ state.timerEnabled = last.pre.timerEnabled
      /\ state.playerSymbols = last.pre.playerSymbols
      /\ state.botMode = last.pre.botMode
      /\ state.difficulty = last.pre.difficulty

(***************************************************************************)
(* C19: after updateSettings with any requested time limit, 0 and          *)
(* negative values included, the stored limit is positive, so the          *)
(* remaining time is never reset to a value of 0 or less.                  *)
(***************************************************************************)
C19_TimeLimitClamped ==
  /\ LastIs("UPDATE_SETTINGS") =>
       (state.turnTimeLimit > 0 /\ state.turnTimeRemaining > 0)
  /\ (LastIs("TIME_UP") /\ Changed) => state.turnTimeRemaining > 0

(***************************************************************************)
(* C20: when an accepted move fills the last empty cell of a sub-board     *)
(* without completing a line, the stored status of that sub-board becomes  *)
(* a decided value distinct from the one of an open board, no move to it   *)
(* is accepted and no accepted move redirects to it.                       *)
(***************************************************************************)
C20_FullBoardIsDrawn ==
  LET b == last.action.boardIndex
  IN  ( /\ LastMoveAccepted
        /\ ~includesNull(state.boards[b])
        /\ \A i \in 1..8 : ~LineComplete(state.boards[b], lines[i]) ) =>
          /\ state.boardStatus[b] # initialBoardStatus[b]
          /\ \A c \in Idx : ReduceMakeMove(state, b, c) = state
          /\ \A from \in Idx :
               LET next == ReduceMakeMove(state, from, b)
               IN  next # state => next.nextBoardIndex # b

(***************************************************************************)
(* C21: in every reachable state the phase is game-over exactly when some  *)
(* player has won a line of three sub-boards or all nine sub-boards are    *)
(* decided; while the phase is playing or paused there is no completed     *)
(* meta line and no winner.                                                *)
(***************************************************************************)
C21_OverIffTerminal ==
  LET terminal == MetaLine(state, "X") \/ MetaLine(state, "O") \/ AllResolved(state)
  IN  /\ (state.gameStatus = "game-over") <=> terminal
      /\ state.gameStatus \in {"playing", "paused"} =>
           (~MetaLine(state, "X") /\ ~MetaLine(state, "O") /\ state.winner = null)

(***************************************************************************)
(* C22: an accepted move (b, c) writes the mover's symbol into cell (b, c) *)
(* only: every other cell of every sub-board is unchanged and no status    *)
(* entry other than entry b changes.                                       *)
(***************************************************************************)
C22_MoveWritesOneCell ==
  ((LastIs("MAKE_MOVE") \/ LastIs("BOT_MOVE")) /\ Changed) =>
    LET b == last.action.boardIndex
        c == last.action.cellIndex
    IN  /\ state.boards[b][c] = last.pre.currentPlayer
        /\ \A i \in Idx, j \in Idx :
             <<i, j>> # <<b, c>> => state.boards[i][j] = last.pre.boards[i][j]
        /\ \A i \in Idx : i # b => state.boardStatus[i] = last.pre.boardStatus[i]

\* an accepted move has just won its sub-board: one cell and one status changed
C22_Witness ==
  /\ LastMoveAccepted
  /\ last.pre.boardStatus[last.action.boardIndex] = null
  /\ state.boardStatus[last.action.boardIndex] \in Players

(***************************************************************************)
(* C23: an effective undo, taken from a position that no undo has touched, *)
(* removes exactly the most recently applied move: boards and outcomes are *)
(* those of the position that move was played from, and the other player   *)
(* is to move.                                                             *)
(***************************************************************************)
C23_UndoRemovesLastMove ==
  ( /\ LastIs("UNDO") /\ Changed
    /\ last.pre.currentMoveIndex = Len(last.pre.moveHistory) - 1 ) =>
      LET lastMove == HistoryAt(last.pre, last.pre.currentMoveIndex)
      IN  /\ state.boards = lastMove.boards
          /\ state.boardStatus = lastMove.boardStatus
          /\ state.currentPlayer = Other(last.pre.currentPlayer)
          /\ state.currentMoveIndex = last.pre.currentMoveIndex - 1

(***************************************************************************)
(* C24: after an effective undo or redo, phase and winner are those of the *)
(* restored position: game-over with the owner of the meta line as winner  *)
(* if a meta line is complete, game-over without winner if all sub-boards  *)
(* are decided, and playing without winner otherwise.                      *)
(***************************************************************************)
C24_PhaseFromRestoredPosition ==
  ((LastIs("UNDO") \/ LastIs("REDO")) /\ Changed) =>
    IF \E p \in Players : MetaLine(state, p)
      THEN /\ state.gameStatus = "game-over"
           /\ state.winner \in Players /\ MetaLine(state, state.winner)
      ELSE IF AllResolved(state)
        THEN state.gameStatus = "game-over" /\ state.winner = null
        ELSE state.gameStatus = "playing" /\ state.winner = null

(***************************************************************************)
(* C25: immediately after any accepted move, also one made after undos,    *)
(* the cursor is the last index of the history and redo changes nothing.   *)
(***************************************************************************)
C25_MoveDiscardsFuture ==
  ((LastIs("MAKE_MOVE") \/ LastIs("BOT_MOVE")) /\ Changed) =>
    /\ state.currentMoveIndex = Len(state.moveHistory) - 1
    /\ ReduceRedo(state) = state

\* a move was accepted while the history still held an undone entry
C25_Witness ==
  /\ LastMoveAccepted
  /\ last.pre.currentMoveIndex < Len(last.pre.moveHistory) - 1

(***************************************************************************)
(* C26: while the game is paused a tick and a time-up leave the remaining  *)
(* time and the player to move as they are, pausing and resuming leave the *)
(* remaining time as it is, so that a resumed game continues with the time *)
(* it had when it was paused.                                              *)
(***************************************************************************)
Clock(s) == <<s.turnTimeRemaining, s.currentPlayer>>

C26_PausedClockFrozen ==
  /\ state.gameStatus = "paused" =>
       /\ Clock(ReduceTickTimer(state)) = Clock(state)
       /\ Clock(ReduceTimeUp(state)) = Clock(state)
       /\ ReduceResume(state).turnTimeRemaining = state.turnTimeRemaining
  /\ last.pre.gameStatus = "paused" /\ last.action.type \in {"TICK_TIMER", "TIME_UP"} =>
       Clock(state) = Clock(last.pre)
  /\ LastIs("PAUSE") \/ LastIs("RESUME") =>
       state.turnTimeRemaining = last.pre.turnTimeRemaining

\* a game resumed after a tick arrived while it was paused
C26_Witness ==
  /\ LastIs("RESUME") /\ Changed
  /\ effects.after = "TICK_TIMER"
  /\ state.timerEnabled /\ state.turnTimeRemaining > 0

(***************************************************************************)
(* C27: with the timer enabled and a positive limit, a tick that counts    *)
(* takes exactly one second off the remaining time, which never goes below *)
(* 0; the turn is forfeited only when no time is left, after exactly       *)
(* turnTimeLimit ticks; and under fair ticking a turn in a game that stays *)
(* in play with no move accepted is eventually forfeited.                  *)
(***************************************************************************)
TimerRunning ==
  state.gameStatus = "playing" /\ state.timerEnabled /\ state.turnTimeLimit > 0

Forfeited == LastIs("TIME_UP") /\ Changed

MoveApplied ==
  last.action.type \in {"MAKE_MOVE", "BOT_MOVE", "OPPONENT_MOVE"} /\ Changed

C27_TickStep ==
  /\ LastIs("TICK_TIMER") /\ Changed =>
       state.turnTimeRemaining = last.pre.turnTimeRemaining - 1
  /\ TimerRunning =>
       /\ state.turnTimeRemaining >= 0
       /\ effects.ticks = state.turnTimeLimit - state.turnTimeRemaining
  /\ Forfeited /\ last.pre.turnTimeLimit > 0 =>
       /\ last.pre.turnTimeRemaining = 0
       /\ state.currentPlayer = Other(last.pre.currentPlayer)

C27_TimerForfeitsTurn ==
  /\ []C27_TickStep
  /\ \A p \in Players :
       (~Replaying /\ TimerRunning /\ state.currentPlayer = p)
         ~> \/ Forfeited /\ state.currentPlayer # p
            \/ state.gameStatus # "playing"
            \/ MoveApplied

\* O's turn forfeited by the timer after five ticks of the interval
C27_Witness ==
  /\ Forfeited
  /\ last.pre.currentPlayer = "O" /\ state.currentPlayer = "X"
  /\ last.pre.turnTimeLimit = 5
  /\ effects.after = "TICK_TIMER"
  /\ ~Replaying

(***************************************************************************)
(* C28: a bot timeout or tick interval armed before a restart never        *)
(* changes the restarted game.  A callback that fires after RESTART before *)
(* the effects have cleared it leaves the state as it is; once the effects *)
(* of the restart have run no timer of the old game is armed, so none is   *)
(* left when the new game is started; and the restarted game itself takes  *)
(* no bot move, tick or time-up.                                           *)
(***************************************************************************)
LateAfter(type) == effects.late /\ effects.after = type

C28_StaleCallbackHarmless ==
  /\ LateAfter("RESTART") =>
       /\ state = last.pre
       /\ ~effects.botTimer /\ ~effects.tickTimer
  /\ LastIs("RESTART") =>
       /\ ~Settled.botTimer /\ ~Settled.tickTimer
       /\ ReduceTickTimer(state) = state
       /\ ReduceTimeUp(state) = state
       /\ \A move \in getBotMove(state.boards, state.boardStatus,
                                 state.nextBoardIndex, state.difficulty) :
            ReduceBotMove(state, move) = state
  /\ LastIs("START_GAME") /\ effects.after = "RESTART" =>
       /\ ~effects.botTimer
       /\ state.currentPlayer = "X" /\ state.turnTimeRemaining = state.turnTimeLimit
       /\ state.boards = initialState.boards

\* the bot timeout of the old game fires after the restart, before the bot
\* effect's cleanup has run
C28_Witness ==
  /\ LateAfter("RESTART")
  /\ LastIs("BOT_MOVE")
  /\ last.pre.botMode /\ last.pre.gameStatus = "init"

(***************************************************************************)
(* C29: while the game is paused no bot move is applied, even when the bot *)
(* timeout armed before the pause fires; and once the game is resumed with *)
(* the bot to move, the bot's move is eventually applied unless the game   *)
(* leaves play first.                                                      *)
(***************************************************************************)
BotMoved == LastIs("BOT_MOVE") /\ Changed

C29_PausedBotWaits ==
  /\ [](LastIs("BOT_MOVE") /\ last.pre.gameStatus = "paused" => state = last.pre)
  /\ (LastIs("RESUME") /\ Changed /\ botEffectArms(state))
       ~> (BotMoved \/ state.gameStatus # "playing")

(***************************************************************************)
(* C30: in bot mode, whenever the game is in play and it is the bot's (O)  *)
(* turn, then under fair scheduling of the bot timeout the bot's symbol is *)
(* eventually placed and the turn returns to the human, unless the game    *)
(* leaves play first, with the timer enabled or disabled.                  *)
(***************************************************************************)
C30_BotEventuallyMoves ==
  (~Replaying /\ botEffectArms(state))
    ~> \/ BotMoved /\ state.currentPlayer = "X"
       \/ state.gameStatus # "playing"

(***************************************************************************)
(* C31: at every difficulty, on the bot's turn in a game in play, every    *)
(* move the selector can return is an empty cell of a legal sub-board:     *)
(* never an occupied cell, an undefined index, or a full or decided board. *)
(***************************************************************************)
C31_BotMoveIsLegal ==
  Called => botOut \subseteq LegalMoves(botIn)

(***************************************************************************)
(* C32: at medium or above, when no legal board offers O an immediate      *)
(* sub-board win but some legal board has a line with two X and the third  *)
(* cell empty, every move the selector can return is the empty cell of     *)
(* such a line.                                                            *)
(***************************************************************************)
BlockingMoves(in) ==
  {m \in LegalMoves(in) : Completes(in.boards[m.boardIndex], m.cellIndex, "X")}

C32_BotBlocks ==
  ( /\ Called
    /\ botIn.difficulty \in {"medium", "hard", "impossible"}
    /\ WinningMoves(botIn) = {}
    /\ BlockingMoves(botIn) # {} ) => botOut \subseteq BlockingMoves(botIn)

(***************************************************************************)
(* C33: at hard, when no legal board holds an immediate win or block but   *)
(* some empty cell of a legal board would, once O takes it, leave at least *)
(* two lines with exactly two O and one empty cell, every move the         *)
(* selector can return is such a fork cell.                                *)
(***************************************************************************)
ForkLines(board, player) ==
  {i \in 1..8 :
     \E e \in 1..3 :
       /\ board[lines[i][e]] = null
       /\ \A k \in (1..3) \ {e} : board[lines[i][k]] = player}

ForkMoves(in) ==
  {m \in LegalMoves(in) :
     Cardinality(ForkLines(After(in, m)[m.boardIndex], "O")) >= 2}

C33_BotForks ==
  ( /\ Called
    /\ botIn.difficulty = "hard"
    /\ WinningMoves(botIn) = {}
    /\ BlockingMoves(botIn) = {}
    /\ ForkMoves(botIn) # {} ) => botOut \subseteq ForkMoves(botIn)

(***************************************************************************)
(* C34: at hard, when no win, block or fork applies, the cell returned     *)
(* follows the order center, corners, edges within the chosen board: cell  *)
(* 4 if it is empty there, and an edge cell only when the center and all   *)
(* four corners of that board are occupied.                                *)
(***************************************************************************)
Corners == {0, 2, 6, 8}

C34_CenterCornersEdges ==
  ( /\ Called
    /\ botIn.difficulty = "hard"
    /\ WinningMoves(botIn) = {}
    /\ BlockingMoves(botIn) = {}
    /\ ForkMoves(botIn) = {} ) =>
      \A m \in botOut :
        m.boardIndex \in Idx =>
          LET board == botIn.boards[m.boardIndex]
          IN  /\ board[4] = null => m.cellIndex = 4
              /\ m.cellIndex \in {1, 3, 5, 7} =>
                   board[4] # null /\ \A c \in Corners : board[c] # null

(***************************************************************************)
(* C35: at impossible, when no win, block or fork applies, every move the  *)
(* selector can return is one the strategic scan of a legal board selects: *)
(* an empty cell that sends X to a decided board or to a board where O     *)
(* leads, or else an empty cell of maximum score, the score penalizing a   *)
(* destination where X can win at once.                                    *)
(***************************************************************************)
\* cells that would give X a fork on a legal board
OpponentForkMoves(in) ==
  {m \in LegalMoves(in) :
     Cardinality(ForkLines([in.boards[m.boardIndex] EXCEPT ![m.cellIndex] = "X"],
                           "X")) >= 2}

\* the score of sending X to sub-board c
StrategicScore(in, c) ==
  countOf(in.boards[c], "O") * 2 - countOf(in.boards[c], "X")
    + (IF \E x \in Idx : Completes(in.boards[c], x, "X") THEN -5 ELSE 0)
    + (IF countOf(in.boards[c], "O") >= 1 /\ countOf(in.boards[c], null) > 5
         THEN 3 ELSE 0)

\* X is sent to a decided sub-board or to one where O leads
Favourable(in, c) ==
  \/ in.boardStatus[c] # null
  \/ countOf(in.boards[c], "O") > countOf(in.boards[c], "X")

StrategicMoves(in) ==
  {m \in LegalMoves(in) :
     \/ Favourable(in, m.cellIndex)
     \/ /\ \A o \in LegalMoves(in) : ~Favourable(in, o.cellIndex)
        /\ \A o \in LegalMoves(in) :
             o.boardIndex = m.boardIndex =>
               StrategicScore(in, o.cellIndex) <= StrategicScore(in, m.cellIndex)}

C35_ImpossibleMaximisesScore ==
  ( /\ Called
    /\ botIn.difficulty = "impossible"
    /\ WinningMoves(botIn) = {}
    /\ BlockingMoves(botIn) = {}
    /\ ForkMoves(botIn) = {}
    /\ OpponentForkMoves(botIn) = {} ) => botOut \subseteq StrategicMoves(botIn)

(***************************************************************************)
(* C36: in a session the host created and the guest joined, whenever no    *)
(* move is in flight exactly one of the two peers has isMyTurn; and the    *)
(* guest does not have isMyTurn before the host's first move has arrived.  *)
(***************************************************************************)
NothingInFlight == peers.toHost = << >> /\ peers.toGuest = << >>

BothInSession == InSession(state) /\ InSession(peers.guest)

C36_ExactlyOneTurn ==
  /\ BothInSession /\ NothingInFlight =>
       state.isMyTurn # peers.guest.isMyTurn
  /\ InSession(peers.guest) /\ peers.guest.moveHistory = << >> =>
       ~peers.guest.isMyTurn

(***************************************************************************)
(* C37: in every reachable state whose phase is playing the player to move *)
(* has a legal move: some cell that the click handler of its sub-board     *)
(* passes on and whose move the reducer's guard does not reject on account *)
(* of the position.  The game is never stuck with the constraint pointing  *)
(* at a full sub-board.                                                    *)
(***************************************************************************)
\* MiniBoard: the click on cell c of sub-board b reaches makeMove
handleCellClick(s, b, c) ==
  /\ s.gameStatus = "playing"
  /\ s.nextBoardIndex \in {NoBoard, b}
  /\ s.boardStatus[b] = null
  /\ s.boards[b][c] = null

\* the move (b, c) of the player whose turn it is passes the reducer's guard
MoveOfMoverValid(s, b, c) ==
  ~MoveInvalid([s EXCEPT !.isMyTurn = TRUE], b, c)

C37_NoDeadlock ==
  state.gameStatus = "playing" =>
    \E b \in Idx, c \in Idx :
      handleCellClick(state, b, c) /\ MoveOfMoverValid(state, b, c)

(***************************************************************************)
(* C38: in a local game without forfeiture the boards hold as many X as O  *)
(* or one X more, and X is to move exactly when the counts are equal.  The *)
(* initial position is balanced in this sense, and no step of a local game *)
(* whose timer is disabled leads from a balanced position to an unbalanced *)
(* one: not a move, not an undo, not a redo.                               *)
(***************************************************************************)
CountOf(s, p) ==
  Cardinality({bc \in Idx \X Idx : s.boards[bc[1]][bc[2]] = p})

Balanced(s) ==
  LET d == CountOf(s, "X") - CountOf(s, "O")
  IN  d \in {0, 1} /\ (s.currentPlayer = "X" <=> d = 0)

LocalUntimed(s) == ~s.multiplayerMode /\ ~s.timerEnabled

C38_SymbolsAlternate ==
  /\ Balanced(initialState)
  /\ ( /\ LocalUntimed(last.pre) /\ LocalUntimed(state)
       /\ Balanced(last.pre) ) => Balanced(state)

(***************************************************************************)
(* C39: in a multiplayer session a peer that may move places its own       *)
(* symbol: whenever isMyTurn holds on the host the player to move there is *)
(* X, and whenever isMyTurn holds on the guest the player to move there is *)
(* O, also after a forfeiture by the timer.                                *)
(***************************************************************************)
OwnSymbol(p) == IF p = Host THEN "X" ELSE "O"

C39_PeerPlacesOwnSymbol ==
  \A p \in {Host, Guest} :
    InSession(PeerState(p)) /\ PeerState(p).isMyTurn =>
      PeerState(p).currentPlayer = OwnSymbol(p)

====
